---- MODULE Spec2Model ----
(***************************************************************************)
(* State-machine model of the retrieval pipeline of soccer-tactics-guide:  *)
(*   - crawl(), extract_article_text,                                      *)
(*     main                         src/crawl_thefalse9.py                 *)
(*   - load_index, search_context,                                         *)
(*     build_index_from_corpus      src/app/rag.py                         *)
(* The crawler, the index and the extraction are modelled over disjoint    *)
(* groups of variables: CrawlSpec (one crawl run), TwinSpec (two runs on   *)
(* one fixed site), ExtractSpec (one extract_article_text call), and for   *)
(* the index SearchSpec (a serving process), BuildSpec (the offline        *)
(* build), RagSpec (both, sharing the index file) and ConcurrentSpec (a    *)
(* serving process reading while a build is writing the file).  MainSpec   *)
(* puts the two together: runs of the crawl script's main, each a crawl    *)
(* followed by a corpus save and an index update.                          *)
(***************************************************************************)
EXTENDS Integers, Sequences, FiniteSets, TLC

(***************************************************************************)
(* Bounds of the model.                                                    *)
(***************************************************************************)
\* MAX_PAGES is 200 in the source (src/crawl_thefalse9.py:20); it is scaled
\* down here so that the page-visit cap is reached inside the URL universe.
MAX_PAGES == 2
\* longest seed list handed to crawl()
MaxSeeds == 2
\* most hyperlinks found on one fetched page
MaxLinks == 1
\* largest max_new_articles value tried (besides None)
MaxNew == 1
\* most records in the index file before the first build
MaxStored == 0
\* most records in the index file a serving process starts beside
MaxIndexed == 2
\* longest corpus handed to build_index_from_corpus
MaxCorpus == 2
\* most build_index_from_corpus calls in one behaviour
MaxBuilds == 2
\* largest k handed to search_context
MaxK == 2
\* most reads of the index file by one serving process
MaxReads == 2
\* most records in the index file a serving process starts beside while
\* builds run
MaxServed == 1
\* most candidate containers in one document given to extract_article_text
MaxNodes == 2

(***************************************************************************)
(* URLs.  A URL reference is a record [netloc, path]; netloc is the host   *)
(* as a sequence of characters (so that str.endswith can be modelled by    *)
(* what it does), and the empty netloc marks a relative reference.         *)
(***************************************************************************)
TargetHost == <<"t","h","e","f","a","l","s","e","9",".","c","o","m">>
LookalikeHost == <<"n","o","t">> \o TargetHost
ForeignHost == <<"e","x","a","m","p","l","e",".","o","r","g">>
NoHost == << >>

\* every reference that can be a seed or an href on a page: a relative one,
\* two pages of the site, one page of a host whose name merely ends in the
\* target's, one page of an unrelated host.  The set is closed under urljoin.
Refs == {[netloc |-> NoHost, path |-> "/a"],
         [netloc |-> TargetHost, path |-> "/a"],
         [netloc |-> TargetHost, path |-> "/b"],
         [netloc |-> LookalikeHost, path |-> "/a"],
         [netloc |-> ForeignHost, path |-> "/a"]}

\* BASE_URL = "https://thefalse9.com"
BASE_URL == [netloc |-> TargetHost, path |-> ""]

\* str.endswith
EndsWith(s, suffix) ==
    /\ Len(s) >= Len(suffix)
    /\ SubSeq(s, Len(s) - Len(suffix) + 1, Len(s)) = suffix

\* urllib.parse.urljoin(base, ref) for the references of Refs: a reference
\* with a host is already absolute, one without takes the base's host.
urljoin(base, ref) ==
    IF ref.netloc # NoHost THEN ref
    ELSE [netloc |-> base.netloc, path |-> ref.path]

\* is_same_domain: urlparse(url).netloc.endswith("thefalse9.com")
is_same_domain(url) == EndsWith(url.netloc, TargetHost)

\* What "inside the target domain" means: the host is thefalse9.com itself
\* or a subdomain of it.  (Used by the claims only, not by the program.)
InTargetDomain(url) ==
    \/ url.netloc = TargetHost
    \/ EndsWith(url.netloc, <<".">> \o TargetHost)

(***************************************************************************)
(* Optional[int]: None is {}, the integer n is {n}.                        *)
(***************************************************************************)
None == {}
Some(n) == {n}
ValueOf(opt) == CHOOSE n \in opt : TRUE
\* Python truthiness of an Optional[int]: None and 0 are falsy
Truthy(opt) == opt # None /\ opt # Some(0)

VARIABLES
    \* ---- one crawl run (crawl, src/crawl_thefalse9.py:162-216)
    existing_urls,     \* argument: URLs of the corpus on disk
    max_new_articles,  \* argument: Optional[int]
    to_visit,          \* FIFO queue of references
    seen,              \* visited set
    articles,          \* captured Articles, in capture order
    known_articles,    \* existing_urls plus the URLs captured in this run
    pc,                \* "loop": at the loop head; "done": crawl has returned
    step,              \* what the last loop iteration did
    fetched,           \* the URL the last iteration handed to get_soup (or NoURL)
    skipped_page,      \* the page whose article the last iteration skipped as
                       \* already known (NoPage when it skipped none)
    throttle,          \* "idle" | "fetched" | "slept": last of get_soup/time.sleep
    failures,          \* number of get_soup calls that raised so far
    site,              \* NoSite: any page may come back from any fetch; or the
                       \* site two runs are compared on: what a fetch of each
                       \* URL gives
    start_urls,        \* argument, kept for the second of two compared runs
    first_run          \* None, or Some(list the first of the two runs returned)

VARIABLES
    \* ---- the index (src/app/rag.py)
    index_file,        \* the file at INDEX_PATH: None (missing) or Some(list)
    cache,             \* lru_cache of load_index: None (empty) or Some(list)
    op,                \* the last call: "none" | "search" | "build"
    outcome,           \* how it ended: "none" | "returned" | "raised"
    embed_calls,       \* embed_text calls made by the last call
    wrote,             \* whether the last call wrote the index file
    corpus_arg,        \* corpus argument of the latest build (<< >> before it)
    query_emb,         \* embed_text(query) of the last search (or << >>)
    k_arg,             \* k argument of the last search
    top_items,         \* line 134 of the last search
    returned,          \* the list the last search returned
    started_without_index,  \* history: there was no index file at the start
    builds,            \* history: number of build calls so far
    uniform,           \* history: every build call so far was given
                       \* corpus_arg and returned normally
    reads,             \* history: times the serving process has opened and
                       \* read the index file (lines 78-79)
    write_pending      \* None, or Some(list) while write_text (lines 201-204)
                       \* has truncated the file and not yet written all of
                       \* the list; index_file is the content before the write

VARIABLES
    \* ---- one extract_article_text call (src/crawl_thefalse9.py:71-113)
    doc,               \* argument: what the parsed document holds
    extracted          \* the result: status "idle" (not called), "none"
                       \* (returned None) or "article", with title and text

VARIABLES
    \* ---- runs of the crawl script (main, src/crawl_thefalse9.py:219-265)
    corpus_file,       \* the file at CORPUS_PATH: None (missing) or Some(list)
    existing_articles, \* line 237 of the latest run
    main_pc            \* "idle": no run yet; "crawling": in the crawl call of
                       \* line 242; "returned" / "raised": how the latest
                       \* run ended

extractVars == <<doc, extracted>>

mainVars == <<corpus_file, existing_articles, main_pc>>

ragVars == <<index_file, cache, op, outcome, embed_calls, wrote, corpus_arg,
             query_emb, k_arg, top_items, returned, started_without_index,
             builds, uniform, reads, write_pending>>

twinVars == <<site, start_urls, first_run>>

crawlVars == <<existing_urls, max_new_articles, to_visit, seen,
               articles, known_articles, pc, step, fetched, skipped_page, throttle,
               failures, twinVars>>

vars == <<crawlVars, ragVars, extractVars, mainVars>>

\* sequences over S of length lo..hi
SeqsUpTo(S, lo, hi) == UNION {[1..n -> S] : n \in lo..hi}
Range(s) == {s[i] : i \in 1..Len(s)}
Injective(s) == \A i, j \in 1..Len(s) : s[i] = s[j] => i = j

\* extract_article_links: list(set(hrefs)) -- distinct hrefs in an order the
\* set iteration decides, so every order is possible.
LinkLists == {s \in SeqsUpTo(Refs, 0, MaxLinks) : Injective(s)}

NoPage == [article |-> FALSE, links |-> << >>]
NoURL == [netloc |-> NoHost, path |-> ""]

\* Article(title, url, text): only the url decides anything in crawl()
Article(url) == [url |-> url]

\* ---- extract_article_text: no call made --------------------------------
NoDocument == [h1 |-> None, og |-> [present |-> FALSE, content |-> None],
               nodes |-> << >>]
NotExtracted == [status |-> "idle", title |-> << >>, text |-> << >>]
ExtractIdle == doc = NoDocument /\ extracted = NotExtracted

\* ---- main: no run made, no corpus file ----------------------------------
MainIdle ==
    /\ corpus_file = None
    /\ existing_articles = << >>
    /\ main_pc = "idle"

\* ---- a fixed site, for comparing two runs -------------------------------
\* the pages of the site
SiteURLs == {r \in Refs : r.netloc = TargetHost}
\* what a fetch of one URL gives: get_soup raises (ok is FALSE), or a page
\* with the set of hrefs on it that extract_article_text does or does not
\* take for an article
Unreachable == [ok |-> FALSE, article |-> FALSE, hrefs |-> {}]
FetchOutcomes ==
    {Unreachable} \cup [ok : {TRUE}, article : BOOLEAN, hrefs : SUBSET SiteURLs]
Sites == [SiteURLs -> FetchOutcomes]
\* the seeds of a run on the site: references that are not fetched, or lead
\* to a page of the site
SiteSeeds ==
    {r \in Refs : is_same_domain(urljoin(BASE_URL, r))
                     => urljoin(BASE_URL, r) \in SiteURLs}
NoSite == << >>

\* list(set): the elements of S in every order
Orderings(S) ==
    {s \in SeqsUpTo(S, Cardinality(S), Cardinality(S)) : Injective(s)}

\* the index's variables while the crawler runs: no file, nothing loaded
RagIdle ==
    /\ index_file = None
    /\ cache = None
    /\ op = "none"
    /\ outcome = "none"
    /\ embed_calls = 0
    /\ wrote = FALSE
    /\ corpus_arg = << >>
    /\ query_emb = << >>
    /\ k_arg = 0
    /\ top_items = << >>
    /\ returned = << >>
    /\ started_without_index = TRUE
    /\ builds = 0
    /\ uniform = TRUE
    /\ reads = 0
    /\ write_pending = None

CrawlInit ==
    /\ existing_urls \in SUBSET {r \in Refs : r.netloc = TargetHost}
    /\ max_new_articles \in {None} \cup {Some(n) : n \in 0..MaxNew}
    /\ to_visit \in SeqsUpTo(Refs, 0, MaxSeeds)  \* list(start_urls)
    /\ seen = {}
    /\ articles = << >>
    /\ known_articles = existing_urls
    /\ pc = "loop"
    /\ step = "start"
    /\ fetched = NoURL
    /\ skipped_page = NoPage
    /\ throttle = "idle"
    /\ failures = 0
    /\ site = NoSite
    /\ start_urls = << >>
    /\ first_run = None
    /\ RagIdle
    /\ ExtractIdle
    /\ MainIdle

\* while to_visit and len(seen) < MAX_PAGES
LoopCondition == to_visit # << >> /\ Cardinality(seen) < MAX_PAGES
\* the loop head with only the queue tested
AtLoopHeadWithoutCap == pc = "loop" /\ to_visit # << >>
AtLoopHead == pc = "loop" /\ LoopCondition

current == Head(to_visit)
current_url == urljoin(BASE_URL, current)

\* A fetched page as the crawler sees it: whether extract_article_text
\* returns an Article, and the hrefs extract_article_links returns.  On a
\* fixed site it is the page of current_url, its hrefs in any order.
Pages ==
    IF site = NoSite THEN [article : BOOLEAN, links : LinkLists]
    ELSE IF ~AtLoopHead THEN {}
    ELSE IF current_url \notin DOMAIN site THEN {}
    ELSE IF ~site[current_url].ok THEN {}
    ELSE {[article |-> site[current_url].article, links |-> s] :
             s \in Orderings(site[current_url].hrefs)}

\* get_soup(current_url) may raise
GetSoupRaises == IF site = NoSite THEN TRUE ELSE ~site[current_url].ok

\* lines 209-212: the links of the page that pass the filter, in list order
RECURSIVE Enqueued(_, _, _)
Enqueued(links, base, visited) ==
    IF links = << >> THEN << >>
    ELSE LET abs_url == urljoin(base, Head(links))
             rest == Enqueued(Tail(links), base, visited)
         IN IF abs_url \notin visited /\ is_same_domain(abs_url)
            THEN <<abs_url>> \o rest
            ELSE rest

\* lines 176-177: already visited
SkipSeen ==
    /\ AtLoopHead
    /\ current \in seen
    /\ to_visit' = Tail(to_visit)
    /\ step' = "skip_seen"
    /\ fetched' = NoURL
    /\ skipped_page' = NoPage
    /\ UNCHANGED <<existing_urls, max_new_articles, seen, articles,
                   known_articles, pc, throttle, failures, twinVars>>
    /\ UNCHANGED <<ragVars, extractVars, mainVars>>

\* lines 178-183: marked visited, then dropped as off-domain
SkipOffDomain ==
    /\ AtLoopHead
    /\ current \notin seen
    /\ ~is_same_domain(current_url)
    /\ to_visit' = Tail(to_visit)
    /\ seen' = seen \cup {current}
    /\ step' = "off_domain"
    /\ fetched' = NoURL
    /\ skipped_page' = NoPage
    /\ UNCHANGED <<existing_urls, max_new_articles, articles,
                   known_articles, pc, throttle, failures, twinVars>>
    /\ UNCHANGED <<ragVars, extractVars, mainVars>>

\* FetchFailed with the exception left uncaught: the run ends there
FetchFailedAborts ==
    /\ AtLoopHead
    /\ current \notin seen
    /\ is_same_domain(current_url)
    /\ GetSoupRaises
    /\ to_visit' = Tail(to_visit)
    /\ seen' = seen \cup {current}
    /\ fetched' = current_url
    /\ skipped_page' = NoPage
    /\ throttle' = "fetched"
    /\ step' = "fetch_failed"
    /\ pc' = "done"
    /\ failures' = failures + 1
    /\ UNCHANGED <<existing_urls, max_new_articles, articles,
                   known_articles, twinVars>>
    /\ UNCHANGED <<ragVars, extractVars, mainVars>>

\* lines 185-190: get_soup raises; logged, continue (no sleep)
FetchFailed ==
    /\ AtLoopHead
    /\ current \notin seen
    /\ is_same_domain(current_url)
    /\ GetSoupRaises
    /\ to_visit' = Tail(to_visit)
    /\ seen' = seen \cup {current}
    /\ fetched' = current_url
    /\ skipped_page' = NoPage
    /\ throttle' = "fetched"
    /\ step' = "fetch_failed"
    /\ pc' = "loop"
    /\ failures' = failures + 1
    /\ UNCHANGED <<existing_urls, max_new_articles, articles,
                   known_articles, twinVars>>
    /\ UNCHANGED <<ragVars, extractVars, mainVars>>

\* the part every successful fetch shares: lines 175-187
Fetched(p) ==
    /\ AtLoopHead
    /\ current \notin seen
    /\ is_same_domain(current_url)
    /\ seen' = seen \cup {current}
    /\ fetched' = current_url
    /\ UNCHANGED <<existing_urls, max_new_articles, failures, twinVars>>
    /\ UNCHANGED <<ragVars, extractVars, mainVars>>

\* lines 208-214: enqueue the page's links, then sleep
FollowLinks(p) ==
    /\ to_visit' = Tail(to_visit) \o Enqueued(p.links, current_url, seen')
    /\ throttle' = "slept"
    /\ pc' = "loop"

\* extract_article_text returns None: line 194 is false
PageNotArticle ==
    \E p \in Pages :
        /\ ~p.article
        /\ Fetched(p)
        /\ FollowLinks(p)
        /\ skipped_page' = NoPage
        /\ step' = "not_article"
        /\ UNCHANGED <<articles, known_articles>>

\* ArticleKnown with a `continue` after the skip message: no link discovery
ArticleKnownSkipsLinks ==
    \E p \in Pages :
        /\ p.article
        /\ Fetched(p)
        /\ current_url \in known_articles
        /\ to_visit' = Tail(to_visit)
        /\ throttle' = "fetched"
        /\ pc' = "loop"
        /\ skipped_page' = p
        /\ step' = "skipped_known"
        /\ UNCHANGED <<articles, known_articles>>

\* lines 195-196: the article's URL is already known
ArticleKnown ==
    \E p \in Pages :
        /\ p.article
        /\ Fetched(p)
        /\ current_url \in known_articles
        /\ FollowLinks(p)
        /\ skipped_page' = p
        /\ step' = "skipped_known"
        /\ UNCHANGED <<articles, known_articles>>

\* line 201: max_new_articles and len(articles) >= max_new_articles
CapReached(captured) ==
    Truthy(max_new_articles) /\ Len(captured) >= ValueOf(max_new_articles)

\* lines 197-200, cap not reached: capture and go on to the links
ArticleCaptured ==
    \E p \in Pages :
        /\ p.article
        /\ Fetched(p)
        /\ current_url \notin known_articles
        /\ articles' = Append(articles, Article(current_url))
        /\ known_articles' = known_articles \cup {current_url}
        /\ ~CapReached(articles')
        /\ FollowLinks(p)
        /\ skipped_page' = NoPage
        /\ step' = "captured"

\* lines 197-206, cap reached: capture and break (no links, no sleep)
ArticleCapturedLast ==
    \E p \in Pages :
        /\ p.article
        /\ Fetched(p)
        /\ current_url \notin known_articles
        /\ articles' = Append(articles, Article(current_url))
        /\ known_articles' = known_articles \cup {current_url}
        /\ CapReached(articles')
        /\ to_visit' = Tail(to_visit)
        /\ throttle' = "fetched"
        /\ pc' = "done"
        /\ skipped_page' = NoPage
        /\ step' = "cap_break"

\* line 174 false, line 216: return articles
LoopExit ==
    /\ pc = "loop"
    /\ ~LoopCondition
    /\ pc' = "done"
    /\ step' = "exit"
    /\ fetched' = NoURL
    /\ skipped_page' = NoPage
    /\ UNCHANGED <<existing_urls, max_new_articles, to_visit, seen,
                   articles, known_articles, throttle, failures, twinVars>>
    /\ UNCHANGED <<ragVars, extractVars, mainVars>>

(***************************************************************************)
(* The index: src/app/rag.py.                                              *)
(*                                                                         *)
(* Numbers.  Embedding components are small integers.  A Euclidean norm is *)
(* carried as its square (norm2), and a cosine similarity as the fraction  *)
(* sign(dot) * dot^2 / (norm2_a * norm2_b): squaring with the sign kept is *)
(* strictly increasing on [-1, 1], so comparisons and sort order are those *)
(* of the real-valued scores.                                              *)
(***************************************************************************)
\* what embed_text returns for a query
Vectors == {<<1, 0>>, <<0, 1>>, <<1, 1>>, <<0, 0>>, <<-1, 0>>}
\* what embed_text returns for the text of an article: the service is a
\* function of the text (one model, EMBEDDING_MODEL, embeds everything)
embed_text(text) == IF text = "A" THEN <<1, 0>> ELSE <<0, 1>>

RECURSIVE SumSq(_)
\* sum(x * x for x in v)
SumSq(v) == IF v = << >> THEN 0 ELSE Head(v) * Head(v) + SumSq(Tail(v))

RECURSIVE Dot(_, _)
\* sum(x * y for x, y in zip(a, b))
Dot(a, b) ==
    IF a = << >> \/ b = << >> THEN 0
    ELSE Head(a) * Head(b) + Dot(Tail(a), Tail(b))

Sign(n) == IF n > 0 THEN 1 ELSE IF n < 0 THEN -1 ELSE 0
Score(num, den) == [num |-> num, den |-> den]
ScoreLess(s, t) == s.num * t.den < t.num * s.den

\* JSON values of the "embedding" key as the file may hold them
NumItem(n) == [isnum |-> TRUE, val |-> n]
NonNumItem == [isnum |-> FALSE, val |-> 0]
JsonList(items) == [kind |-> "list", items |-> items]
JsonNumList(v) == JsonList([i \in 1..Len(v) |-> NumItem(v[i])])
JsonAbsent == [kind |-> "absent", items |-> << >>]
JsonString == [kind |-> "string", items |-> << >>]

\* one object of the index file; norm2 is None when the "norm" key is absent
Stored(title, url, text, embedding, norm2) ==
    [title |-> title, url |-> url, text |-> text, embedding |-> embedding,
     norm2 |-> norm2]

\* the record lines 186-192 build
BuiltRecord(article, emb) ==
    Stored(article.title, article.url, article.text, JsonNumList(emb),
           Some(SumSq(emb)))

\* records an index file may hold before the first operation: well-formed
\* ones (norm stored, norm absent, all-zero embedding), and the four kinds
\* of malformed embedding
InitialRecords ==
    {Stored("T1", "u1", "A", JsonNumList(<<1, 0>>), Some(1)),
     Stored("T2", "u2", "B", JsonNumList(<<0, 1>>), None),
     Stored("T1", "u1", "A", JsonNumList(<<1, 1>>), Some(2)),
     Stored("T2", "u2", "B", JsonNumList(<<-1, 0>>), None),
     Stored("T2", "u2", "B", JsonNumList(<<0, 0>>), Some(0)),
     Stored("T1", "u1", "A", JsonAbsent, None),
     Stored("T1", "u1", "A", JsonList(<< >>), Some(1)),
     Stored("T1", "u1", "A", JsonString, Some(1)),
     Stored("T1", "u1", "A", JsonList(<<NumItem(1), NonNumItem>>), Some(1))}

\* articles a corpus may hold: {"url": ..., "text": ...}
Articles ==
    {[title |-> "T1", url |-> "u1", text |-> "A"],
     [title |-> "T2", url |-> "u2", text |-> "B"],
     [title |-> "T3", url |-> "u2", text |-> ""],
     [title |-> "T4", url |-> "", text |-> "A"]}
Corpora == SeqsUpTo(Articles, 0, MaxCorpus)

\* ---- load_index, lines 62-100 -------------------------------------------
\* line 84: not isinstance(emb, list) or not emb
LoadSkips(item) ==
    item.embedding.kind # "list" \/ item.embedding.items = << >>

\* float(x) raises for an element that is no number (lines 88, 95)
LoadRaises(item) ==
    /\ ~LoadSkips(item)
    /\ \E i \in 1..Len(item.embedding.items) : ~item.embedding.items[i].isnum

\* lines 86-98
Normalized(item) ==
    LET emb == [i \in 1..Len(item.embedding.items) |->
                    item.embedding.items[i].val]
    IN [title |-> item.title, url |-> item.url, text |-> item.text,
        embedding |-> emb,
        norm2 |-> IF Truthy(item.norm2) THEN ValueOf(item.norm2)
                  ELSE SumSq(emb)]

RECURSIVE NormalizeAll(_)
\* lines 81-100: the loop over the file's records; the first record that
\* raises ends the load
NormalizeAll(data) ==
    IF data = << >> THEN [raised |-> FALSE, records |-> << >>]
    ELSE IF LoadSkips(Head(data)) THEN NormalizeAll(Tail(data))
    ELSE IF LoadRaises(Head(data)) THEN [raised |-> TRUE, records |-> << >>]
    ELSE LET rest == NormalizeAll(Tail(data))
         IN [raised |-> rest.raised,
             records |-> IF rest.raised THEN << >>
                         ELSE <<Normalized(Head(data))>> \o rest.records]

\* lines 74-100: the body of load_index
ReadIndex(file) ==
    IF file = None THEN [raised |-> FALSE, records |-> << >>]
    ELSE NormalizeAll(ValueOf(file))

\* the body of load_index opens and reads the file: nothing is cached and
\* the file exists (line 74), be it complete or being written
ReadsFile == cache = None /\ (index_file # None \/ write_pending # None)

\* @lru_cache(maxsize=1): the body runs only while nothing is cached, and an
\* exception is not cached.  json.load (line 79) raises JSONDecodeError on a
\* file that holds only the beginning of a JSON list.
load_index ==
    IF cache # None THEN [raised |-> FALSE, records |-> ValueOf(cache)]
    ELSE IF write_pending # None THEN [raised |-> TRUE, records |-> << >>]
    ELSE ReadIndex(index_file)

\* ---- search_context, lines 103-139 --------------------------------------
\* _cosine_similarity without the zero-norm guard of lines 109-110
cosine_similarity_unguarded(a, b, norm2_b) ==
    Score(Sign(Dot(a, b)) * Dot(a, b) * Dot(a, b), SumSq(a) * norm2_b)

\* _cosine_similarity(a, b, norm_b)
cosine_similarity(a, b, norm2_b) ==
    LET norm2_a == SumSq(a)
        dot == Dot(a, b)
    IN IF norm2_a = 0 \/ norm2_b = 0 THEN Score(0, 1)
       ELSE Score(Sign(dot) * dot * dot, norm2_a * norm2_b)

\* lines 128-131
Scored(q, index) ==
    [i \in 1..Len(index) |->
        [score |-> cosine_similarity(q, index[i].embedding, index[i].norm2),
         item |-> index[i]]]

RECURSIVE InsertAscending(_, _)
InsertAscending(sorted, x) ==
    IF sorted = << >> THEN <<x>>
    ELSE IF ScoreLess(x.score, Head(sorted).score)
         THEN <<x>> \o sorted
         ELSE <<Head(sorted)>> \o InsertAscending(Tail(sorted), x)

RECURSIVE InsertDescending(_, _)
\* x goes behind every entry whose score is >= its own (the sort is stable)
InsertDescending(sorted, x) ==
    IF sorted = << >> THEN <<x>>
    ELSE IF ScoreLess(Head(sorted).score, x.score)
         THEN <<x>> \o sorted
         ELSE <<Head(sorted)>> \o InsertDescending(Tail(sorted), x)

RECURSIVE SortAscending(_)
\* the sort of line 133 without reverse=True
SortAscending(scored) ==
    IF scored = << >> THEN << >>
    ELSE InsertAscending(SortAscending(SubSeq(scored, 1, Len(scored) - 1)),
                         scored[Len(scored)])

RECURSIVE SortDescending(_)
\* line 133: scored.sort(key=score, reverse=True)
SortDescending(scored) ==
    IF scored = << >> THEN << >>
    ELSE InsertDescending(SortDescending(SubSeq(scored, 1, Len(scored) - 1)),
                          scored[Len(scored)])

\* s[:k]
Slice(s, k) ==
    IF k >= 0 THEN SubSeq(s, 1, IF k < Len(s) THEN k ELSE Len(s))
    ELSE SubSeq(s, 1, IF Len(s) + k > 0 THEN Len(s) + k ELSE 0)

\* line 134
TopItems(scored, k) ==
    LET top == Slice(SortDescending(scored), k)
    IN [i \in 1..Len(top) |-> top[i].item]

\* lines 136-139
Projection(items) ==
    [i \in 1..Len(items) |->
        [title |-> items[i].title, url |-> items[i].url, text |-> items[i].text]]

SearchFrame ==
    /\ ReadsFile => reads < MaxReads
    /\ reads' = IF ReadsFile THEN reads + 1 ELSE reads
    /\ op' = "search"
    /\ wrote' = FALSE
    /\ UNCHANGED <<index_file, corpus_arg, started_without_index, builds,
                   uniform, write_pending>>
    /\ UNCHANGED <<crawlVars, extractVars, mainVars>>

\* line 122 raises: load_index met a record it cannot convert
SearchLoadRaises ==
    \E k \in 0..MaxK :
        /\ load_index.raised
        /\ SearchFrame
        /\ cache' = cache
        /\ outcome' = "raised"
        /\ embed_calls' = 0
        /\ query_emb' = << >>
        /\ k_arg' = k
        /\ top_items' = << >>
        /\ returned' = << >>

\* lines 123-124: the index is empty
SearchEmptyIndex ==
    \E k \in 0..MaxK :
        /\ ~load_index.raised
        /\ load_index.records = << >>
        /\ SearchFrame
        /\ cache' = Some(load_index.records)
        /\ outcome' = "returned"
        /\ embed_calls' = 0
        /\ query_emb' = << >>
        /\ k_arg' = k
        /\ top_items' = << >>
        /\ returned' = << >>

\* line 126 raises: the embedding service fails
SearchEmbedRaises ==
    \E k \in 0..MaxK :
        /\ ~load_index.raised
        /\ load_index.records # << >>
        /\ SearchFrame
        /\ cache' = Some(load_index.records)
        /\ outcome' = "raised"
        /\ embed_calls' = 1
        /\ query_emb' = << >>
        /\ k_arg' = k
        /\ top_items' = << >>
        /\ returned' = << >>

\* lines 126-139
SearchRanked ==
    \E k \in 0..MaxK, q \in Vectors :
        /\ ~load_index.raised
        /\ load_index.records # << >>
        /\ SearchFrame
        /\ cache' = Some(load_index.records)
        /\ outcome' = "returned"
        /\ embed_calls' = 1
        /\ query_emb' = q
        /\ k_arg' = k
        /\ top_items' = TopItems(Scored(q, load_index.records), k)
        /\ returned' = Projection(top_items')

\* ---- build_index_from_corpus, lines 142-204 -----------------------------
\* lines 158-166 (a file that holds a list)
ExistingRecords(file) == IF file = None THEN << >> ELSE ValueOf(file)

\* lines 168-172
ExistingUrls(records) ==
    {records[i].url : i \in {j \in 1..Len(records) : records[j].url # ""}}

\* lines 179-182 without the URL test
SkippedOnlyIfEmpty(article, urls) == article.text = ""

\* lines 179-182: the article is passed over
Skipped(article, urls) ==
    \/ article.text = ""
    \/ (article.url # "" /\ article.url \in urls)

RECURSIVE BuildLoop(_, _, _)
\* lines 174-195 from article i on: new_records, and the positions of the
\* articles embed_text is called for
BuildLoop(corpus, i, urls) ==
    IF i > Len(corpus) THEN [new |-> << >>, embedded |-> << >>]
    ELSE IF Skipped(corpus[i], urls) THEN BuildLoop(corpus, i + 1, urls)
    ELSE LET rest == BuildLoop(corpus, i + 1,
                               IF corpus[i].url # ""
                               THEN urls \cup {corpus[i].url} ELSE urls)
         IN [new |-> <<BuiltRecord(corpus[i], embed_text(corpus[i].text))>>
                      \o rest.new,
             embedded |-> <<i>> \o rest.embedded]

BuildFrame(corpus) ==
    /\ builds < MaxBuilds
    /\ builds' = builds + 1
    /\ op' = "build"
    /\ corpus_arg' = corpus
    /\ query_emb' = << >>
    /\ k_arg' = 0
    /\ top_items' = << >>
    /\ returned' = << >>
    /\ write_pending = None
    /\ UNCHANGED <<cache, started_without_index, reads>>
    /\ UNCHANGED <<crawlVars, extractVars>>

\* lines 197-204 with the early return missing
WriteAlways(existing, new) ==
    /\ index_file' = Some(existing \o new)
    /\ wrote' = TRUE

\* lines 197-204 with only new_records written
WriteOnlyNew(existing, new) ==
    IF new = << >>
    THEN index_file' = index_file /\ wrote' = FALSE
    ELSE index_file' = Some(new) /\ wrote' = TRUE

\* lines 197-204
WriteIfNew(existing, new) ==
    IF new = << >>
    THEN index_file' = index_file /\ wrote' = FALSE
    ELSE index_file' = Some(existing \o new) /\ wrote' = TRUE

\* every embed_text call succeeds: the build returns
BuildReturns ==
    \E corpus \in Corpora :
        LET existing == ExistingRecords(index_file)
            run == BuildLoop(corpus, 1, ExistingUrls(existing))
        IN /\ BuildFrame(corpus)
           /\ WriteIfNew(existing, run.new)
           /\ outcome' = "returned"
           /\ embed_calls' = Len(run.embedded)
           /\ uniform' = (uniform /\ (builds = 0 \/ corpus = corpus_arg))
           /\ UNCHANGED write_pending
           /\ UNCHANGED mainVars

\* BuildRaises with the records embedded before the failure written out
BuildRaisesAfterWriting ==
    \E corpus \in Corpora :
        LET existing == ExistingRecords(index_file)
            run == BuildLoop(corpus, 1, ExistingUrls(existing))
        IN \E n \in 1..Len(run.embedded) :
            /\ BuildFrame(corpus)
            /\ index_file' = IF n = 1 THEN index_file
                              ELSE Some(existing \o SubSeq(run.new, 1, n - 1))
            /\ wrote' = (n > 1)
            /\ outcome' = "raised"
            /\ embed_calls' = n
            /\ uniform' = FALSE
            /\ UNCHANGED write_pending
            /\ UNCHANGED mainVars

\* the n-th embed_text call of the build raises (line 184): the exception
\* leaves build_index_from_corpus before anything is written
BuildRaises ==
    \E corpus \in Corpora :
        LET existing == ExistingRecords(index_file)
            run == BuildLoop(corpus, 1, ExistingUrls(existing))
        IN \E n \in 1..Len(run.embedded) :
            /\ BuildFrame(corpus)
            /\ index_file' = index_file
            /\ wrote' = FALSE
            /\ outcome' = "raised"
            /\ embed_calls' = n
            /\ uniform' = FALSE
            /\ UNCHANGED write_pending
            /\ UNCHANGED mainVars

\* lines 142-201 seen by a concurrent reader: the build has new records and
\* write_text has opened the file, which truncates it
BuildOpensFile ==
    \E corpus \in Corpora :
        LET existing == ExistingRecords(index_file)
            run == BuildLoop(corpus, 1, ExistingUrls(existing))
        IN /\ run.new # << >>
           /\ BuildFrame(corpus)
           /\ write_pending' = Some(existing \o run.new)
           /\ index_file' = index_file
           /\ wrote' = FALSE
           /\ outcome' = "writing"
           /\ embed_calls' = Len(run.embedded)
           /\ uniform' = (uniform /\ (builds = 0 \/ corpus = corpus_arg))
           /\ UNCHANGED mainVars

\* lines 201-204 completed: the whole list is in the file, the build returns
BuildClosesFile ==
    /\ write_pending # None
    /\ index_file' = write_pending
    /\ write_pending' = None
    /\ wrote' = TRUE
    /\ op' = "build"
    /\ outcome' = "returned"
    /\ query_emb' = << >>
    /\ k_arg' = 0
    /\ top_items' = << >>
    /\ returned' = << >>
    /\ UNCHANGED <<cache, embed_calls, corpus_arg, started_without_index,
                   builds, uniform, reads>>
    /\ UNCHANGED <<crawlVars, extractVars, mainVars>>

\* the crawler's variables while the index is exercised: a run that returned
CrawlIdle ==
    /\ existing_urls = {}
    /\ max_new_articles = None
    /\ to_visit = << >>
    /\ seen = {}
    /\ articles = << >>
    /\ known_articles = {}
    /\ pc = "done"
    /\ step = "exit"
    /\ fetched = NoURL
    /\ skipped_page = NoPage
    /\ throttle = "idle"
    /\ failures = 0
    /\ site = NoSite
    /\ start_urls = << >>
    /\ first_run = None

\* the state of a fresh process beside an index file of at most n records
RagStart(n) ==
    /\ index_file \in {None} \cup
                      {Some(s) : s \in SeqsUpTo(InitialRecords, 0, n)}
    /\ cache = None
    /\ op = "none"
    /\ outcome = "none"
    /\ embed_calls = 0
    /\ wrote = FALSE
    /\ corpus_arg = << >>
    /\ query_emb = << >>
    /\ k_arg = 0
    /\ top_items = << >>
    /\ returned = << >>
    /\ started_without_index = (index_file = None)
    /\ builds = 0
    /\ uniform = TRUE
    /\ reads = 0
    /\ write_pending = None
    /\ CrawlIdle
    /\ ExtractIdle
    /\ MainIdle

RagInit == RagStart(MaxStored)
SearchInit == RagStart(MaxIndexed)
ServeInit == RagStart(MaxServed)


RagNext ==
    \/ SearchLoadRaises
    \/ SearchEmptyIndex
    \/ SearchEmbedRaises
    \/ SearchRanked
    \/ BuildReturns
    \/ BuildRaises

RagSpec == ServeInit /\ [][RagNext]_vars

\* the serving process alone: search_context calls against a fixed file
SearchNext ==
    \/ SearchLoadRaises
    \/ SearchEmptyIndex
    \/ SearchEmbedRaises
    \/ SearchRanked

SearchSpec == SearchInit /\ [][SearchNext]_vars

\* the offline build alone: build_index_from_corpus calls
BuildNext ==
    \/ BuildReturns
    \/ BuildRaises

BuildSpec == RagInit /\ [][BuildNext]_vars

\* a serving process beside a build that writes the file while it is read
ConcurrentNext ==
    \/ SearchLoadRaises
    \/ SearchEmptyIndex
    \/ SearchEmbedRaises
    \/ SearchRanked
    \/ BuildOpensFile
    \/ BuildClosesFile

ConcurrentSpec == RagInit /\ [][ConcurrentNext]_vars

(***************************************************************************)
(* extract_article_text.  Strings are sequences of characters, so that     *)
(* strip, `in` and the class*= selectors are modelled by what they do.     *)
(***************************************************************************)
Entry == <<"e","n","t","r","y">>
Post == <<"p","o","s","t">>
ArticleWord == <<"a","r","t","i","c","l","e">>
DashContent == <<"-","c","o","n","t","e","n","t">>
DashBody == <<"-","b","o","d","y">>
Space == <<" ">>

\* line 90
keywords == {Entry, Post, ArticleWord}

\* lines 79-85: the four class*= patterns; selector 5 is the tag "article"
class_patterns == <<Entry \o DashContent, Post \o DashContent,
                    ArticleWord \o DashContent, Post \o DashBody>>
ArticleSelector == Len(class_patterns) + 1

\* sub in s
Contains(s, sub) ==
    \E i \in 1..(Len(s) - Len(sub) + 1) : SubSeq(s, i, i + Len(sub) - 1) = sub

RECURSIVE Strip(_)
\* str.strip() for strings whose only whitespace is the space
Strip(s) ==
    IF s = << >> THEN s
    ELSE IF Head(s) = " " THEN Strip(Tail(s))
    ELSE IF s[Len(s)] = " " THEN Strip(SubSeq(s, 1, Len(s) - 1))
    ELSE s

RECURSIVE Join(_)
\* " ".join(names): the class attribute as the selectors see it
Join(names) ==
    IF names = << >> THEN << >>
    ELSE IF Len(names) = 1 THEN names[1]
    ELSE names[1] \o Space \o Join(Tail(names))

\* the documents tried: an h1 or none, an og:title meta tag or none (with or
\* without a content attribute), and the candidate containers in document
\* order, each with its tag, its class attribute as node.get("class") gives
\* it (None, or the list of names) and the text _extract_text_from_node
\* takes from it
PageURL == <<"U">>
H1Texts == {<< >>, Space, <<"H">>, <<" ","H"," ">>}
OGContents == {<< >>, Space, <<"O">>, <<"O"," ">>}
ClassAttributes ==
    {None, Some(<< << >> >>), Some(<< <<"n","a","v">> >>),
     Some(<< Post \o <<"e","r">> >>),
     Some(<< <<"n","a","v">>, Entry \o DashContent >>)}
NodeTexts == {<< >>, <<"a","b">>, <<"c","d">>, <<"a","b","c">>}
Nodes == [is_article_tag : BOOLEAN, class : ClassAttributes, text : NodeTexts]
Documents ==
    [h1 : {None} \cup {Some(t) : t \in H1Texts},
     og : {[present |-> FALSE, content |-> None]} \cup
          [present : {TRUE}, content : {None} \cup {Some(c) : c \in OGContents}],
     nodes : SeqsUpTo(Nodes, 0, MaxNodes)]

\* lines 72-77
ResolvedTitle(url, d) ==
    IF d.h1 = None
    THEN IF d.og.present /\ d.og.content # None /\ ValueOf(d.og.content) # << >>
         THEN Strip(ValueOf(d.og.content))
         ELSE url
    ELSE Strip(ValueOf(d.h1))

\* _normalize_classes, lines 55-60
normalize_classes(value) ==
    IF value = None THEN << >>
    ELSE SelectSeq(ValueOf(value), LAMBDA cls : cls # << >>)

\* soup.select(selector) matches the node
Selects(selector, node) ==
    IF selector = ArticleSelector THEN node.is_article_tag
    ELSE /\ node.class # None
         /\ Contains(Join(ValueOf(node.class)), class_patterns[selector])

\* lines 99-104: a generic <article> wrapper that is passed over
Rejected(selector, node) ==
    LET classes == normalize_classes(node.class)
    IN /\ selector = ArticleSelector
       /\ classes # << >>
       /\ ~\E i \in 1..Len(classes), keyword \in keywords :
             Contains(classes[i], keyword)

RECURSIVE BestText(_, _, _, _, _)
\* lines 92-108 from selector `selector` and node `j` on
BestText(d, selector, j, seen_nodes, best_text) ==
    IF selector > ArticleSelector THEN best_text
    ELSE IF j > Len(d.nodes)
         THEN BestText(d, selector + 1, 1, seen_nodes, best_text)
    ELSE IF ~Selects(selector, d.nodes[j]) \/ j \in seen_nodes
         THEN BestText(d, selector, j + 1, seen_nodes, best_text)
    ELSE IF Rejected(selector, d.nodes[j])
         THEN BestText(d, selector, j + 1, seen_nodes \cup {j}, best_text)
    ELSE BestText(d, selector, j + 1, seen_nodes \cup {j},
                  IF Len(d.nodes[j].text) > Len(best_text)
                  THEN d.nodes[j].text ELSE best_text)

\* extract_article_text(url, soup), lines 71-113
extract_article_text(url, d) ==
    LET title == ResolvedTitle(url, d)
        best_text == BestText(d, 1, 1, {}, << >>)
    IN IF Strip(best_text) = << >>
       THEN [status |-> "none", title |-> << >>, text |-> << >>]
       ELSE [status |-> "article",
             title |-> IF title # << >> THEN title ELSE url,
             text |-> Strip(best_text)]

ExtractInit ==
    /\ doc \in Documents
    /\ extracted = NotExtracted
    /\ CrawlIdle
    /\ RagIdle
    /\ MainIdle

Extract ==
    /\ extracted.status = "idle"
    /\ extracted' = extract_article_text(PageURL, doc)
    /\ UNCHANGED doc
    /\ UNCHANGED <<crawlVars, ragVars, mainVars>>

ExtractNext == Extract

ExtractSpec == ExtractInit /\ [][ExtractNext]_vars

\* two runs on one site: the arguments and the site of the first run
TwinInit ==
    /\ site \in Sites
    /\ existing_urls \in SUBSET SiteURLs
    /\ max_new_articles \in {None} \cup {Some(n) : n \in 0..MaxNew}
    /\ start_urls \in SeqsUpTo(SiteSeeds, 0, MaxSeeds)
    /\ to_visit = start_urls
    /\ seen = {}
    /\ articles = << >>
    /\ known_articles = existing_urls
    /\ pc = "loop"
    /\ step = "start"
    /\ fetched = NoURL
    /\ skipped_page = NoPage
    /\ throttle = "idle"
    /\ failures = 0
    /\ first_run = None
    /\ RagIdle
    /\ ExtractIdle
    /\ MainIdle

\* the first run has returned; crawl is called again with the same
\* arguments (lines 169-172)
SecondRun ==
    /\ pc = "done"
    /\ site # NoSite
    /\ first_run = None
    /\ first_run' = Some(articles)
    /\ to_visit' = start_urls
    /\ seen' = {}
    /\ articles' = << >>
    /\ known_articles' = existing_urls
    /\ pc' = "loop"
    /\ step' = "start"
    /\ fetched' = NoURL
    /\ skipped_page' = NoPage
    /\ throttle' = "idle"
    /\ failures' = 0
    /\ UNCHANGED <<existing_urls, max_new_articles, site, start_urls>>
    /\ UNCHANGED <<ragVars, extractVars, mainVars>>

TwinNext ==
    \/ SkipSeen
    \/ SkipOffDomain
    \/ FetchFailed
    \/ PageNotArticle
    \/ ArticleKnown
    \/ ArticleCaptured
    \/ ArticleCapturedLast
    \/ LoopExit
    \/ SecondRun

TwinSpec == TwinInit /\ [][TwinNext]_vars

CrawlNext ==
    \/ SkipSeen
    \/ SkipOffDomain
    \/ FetchFailed
    \/ PageNotArticle
    \/ ArticleKnown
    \/ ArticleCaptured
    \/ ArticleCapturedLast
    \/ LoopExit

CrawlSpec == CrawlInit /\ [][CrawlNext]_vars

\* The loop is sequential code: whenever an iteration can run, it runs.
CrawlFairSpec == CrawlSpec /\ WF_vars(CrawlNext)

(***************************************************************************)
(* main: runs of the crawl script, one after the other.  Each run loads    *)
(* the corpus file, crawls (the actions of crawl above), and if the crawl  *)
(* returned new articles saves the corpus and updates the index.           *)
(***************************************************************************)
\* a URL as the string the corpus and the index hold
HostText(netloc) ==
    CASE netloc = TargetHost -> "thefalse9.com"
      [] netloc = LookalikeHost -> "notthefalse9.com"
      [] netloc = ForeignHost -> "example.org"
      [] OTHER -> ""
URLText(url) ==
    IF url = NoURL THEN "" ELSE "https://" \o HostText(url.netloc) \o url.path

\* lines 15-17
BEGINNERS_CATEGORY_URL ==
    [netloc |-> TargetHost, path |-> "/category/football-tactics-for-beginners"]
\* line 23
DEFAULT_ARTICLE_LIMIT == 15

\* load_config, lines 116-132: "minimal" or "full", and a positive limit
StartURLs ==
    {<<BEGINNERS_CATEGORY_URL>>, <<[netloc |-> TargetHost, path |-> "/"]>>}
ArticleLimits == {DEFAULT_ARTICLE_LIMIT} \cup 1..MaxNew

\* the Article extract_article_text returned for a captured page, as
\* asdict gives it (line 158): title and text are never empty (lines
\* 110-113); the crawl keeps only the url
asdict(article) == [title |-> "T1", url |-> article.url, text |-> "A"]

RECURSIVE AllAsDicts(_)
AllAsDicts(captured) ==
    IF captured = << >> THEN << >>
    ELSE <<asdict(Head(captured))>> \o AllAsDicts(Tail(captured))

RECURSIVE LoadItems(_)
\* lines 145-153
LoadItems(items) ==
    IF items = << >> THEN << >>
    ELSE LET item == Head(items)
         IN IF item.url = NoURL \/ item.text = "" THEN LoadItems(Tail(items))
            ELSE <<[title |-> IF item.title # "" THEN item.title
                              ELSE URLText(item.url),
                    url |-> item.url, text |-> item.text]>>
                 \o LoadItems(Tail(items))

\* load_existing_corpus, lines 135-154
load_existing_corpus(file) ==
    IF file = None THEN << >> ELSE LoadItems(ValueOf(file))

RECURSIVE corpus_for_index(_)
\* lines 259-261
corpus_for_index(new_articles) ==
    IF new_articles = << >> THEN << >>
    ELSE <<[title |-> Head(new_articles).title,
            url |-> URLText(Head(new_articles).url),
            text |-> Head(new_articles).text]>>
         \o corpus_for_index(Tail(new_articles))

\* lines 219-246 and 169-172: a run starts, loads the corpus and enters
\* the crawl loop
MainStarts ==
    /\ main_pc # "crawling"
    /\ builds < MaxBuilds
    /\ \E seeds \in StartURLs, article_limit \in ArticleLimits :
        /\ existing_articles' = load_existing_corpus(corpus_file)
        /\ existing_urls' = {existing_articles'[i].url :
                                i \in 1..Len(existing_articles')}
        /\ max_new_articles' = Some(article_limit)
        /\ start_urls' = seeds
        /\ to_visit' = seeds
    /\ seen' = {}
    /\ articles' = << >>
    /\ known_articles' = existing_urls'
    /\ pc' = "loop"
    /\ step' = "start"
    /\ fetched' = NoURL
    /\ skipped_page' = NoPage
    /\ throttle' = "idle"
    /\ failures' = 0
    /\ main_pc' = "crawling"
    /\ UNCHANGED <<site, first_run, corpus_file>>
    /\ UNCHANGED <<ragVars, extractVars>>

\* lines 249-251: the crawl returned no new article
MainNoNewContent ==
    /\ main_pc = "crawling"
    /\ pc = "done"
    /\ articles = << >>
    /\ main_pc' = "returned"
    /\ UNCHANGED <<corpus_file, existing_articles>>
    /\ UNCHANGED <<crawlVars, ragVars, extractVars>>

\* lines 254-256, then the build_index_from_corpus call of line 264
MainSavesThenBuilds(corpus) ==
    /\ main_pc = "crawling"
    /\ pc = "done"
    /\ articles # << >>
    /\ corpus_file' = Some(existing_articles \o AllAsDicts(articles))
    /\ BuildFrame(corpus)
    /\ UNCHANGED write_pending
    /\ UNCHANGED existing_articles

\* lines 253-265: the index update returns, and so does main
MainUpdatesIndex ==
    LET corpus == corpus_for_index(AllAsDicts(articles))
        existing == ExistingRecords(index_file)
        run == BuildLoop(corpus, 1, ExistingUrls(existing))
    IN /\ MainSavesThenBuilds(corpus)
       /\ WriteIfNew(existing, run.new)
       /\ outcome' = "returned"
       /\ embed_calls' = Len(run.embedded)
       /\ uniform' = (uniform /\ (builds = 0 \/ corpus = corpus_arg))
       /\ main_pc' = "returned"

\* lines 253-264: the n-th embed_text call of the index update raises
\* (rag.py line 184); nothing catches it and main ends with the error
MainIndexRaises ==
    LET corpus == corpus_for_index(AllAsDicts(articles))
        existing == ExistingRecords(index_file)
        run == BuildLoop(corpus, 1, ExistingUrls(existing))
    IN \E n \in 1..Len(run.embedded) :
        /\ MainSavesThenBuilds(corpus)
        /\ index_file' = index_file
        /\ wrote' = FALSE
        /\ outcome' = "raised"
        /\ embed_calls' = n
        /\ uniform' = FALSE
        /\ main_pc' = "raised"

\* no corpus file, no index file, no run made
MainInit ==
    /\ CrawlIdle
    /\ RagIdle
    /\ ExtractIdle
    /\ MainIdle

\* The crawl of a run is the crawl above from one seed on the site: no
\* reference is dropped as off-domain (links are filtered when enqueued,
\* line 211), and within MAX_PAGES pages no queued reference is met twice.
MainNext ==
    \/ MainStarts
    \/ FetchFailed
    \/ PageNotArticle
    \/ ArticleKnown
    \/ ArticleCaptured
    \/ ArticleCapturedLast
    \/ LoopExit
    \/ MainNoNewContent
    \/ MainUpdatesIndex
    \/ MainIndexRaises

MainSpec == MainInit /\ [][MainNext]_vars

(***************************************************************************)
(* Claims about crawl().                                                   *)
(***************************************************************************)
\* the steps that call get_soup
FetchSteps == {"fetch_failed", "not_article", "skipped_known", "captured",
               "cap_break"}
ArticleURLs == {articles[i].url : i \in 1..Len(articles)}

\* C1: Bounded traversal.  For every run called with max_new_articles = N,
\* N >= 0, the list of captured Articles never holds more than N entries.
C1_BoundedTraversal ==
    max_new_articles # None => Len(articles) <= ValueOf(max_new_articles)

\* C2: Dedup across runs.  No captured Article has a URL of existing_urls;
\* and when the run fetches a page at a URL U of existing_urls that extracts
\* as an article, nothing is captured by that step and every link of the
\* page that resolves to an unvisited same-domain URL is in the queue
\* afterwards, behind what was queued before.
C2_DedupAcrossRuns ==
    /\ [](ArticleURLs \cap existing_urls = {})
    /\ [][(step' = "skipped_known" /\ fetched' \in existing_urls)
            => /\ articles' = articles
               /\ Len(to_visit') >= Len(to_visit) - 1
               /\ \A i \in 1..Len(skipped_page'.links) :
                    LET abs_url == urljoin(fetched', skipped_page'.links[i])
                    IN (abs_url \notin seen' /\ is_same_domain(abs_url))
                         => \E j \in Len(to_visit)..Len(to_visit') :
                                to_visit'[j] = abs_url]_vars

\* C2 witness: an article page at an existing URL was fetched, nothing was
\* captured, and one of its links is queued.
C2_Witness ==
    /\ step = "skipped_known"
    /\ fetched \in existing_urls
    /\ articles = << >>
    /\ \E i \in 1..Len(skipped_page.links) :
          urljoin(fetched, skipped_page.links[i]) \in Range(to_visit)

\* C4: Domain containment.  No URL outside the target domain is in the
\* visited set, and no captured Article has a URL outside the target domain.
C4_DomainContainment ==
    /\ \A u \in seen : InTargetDomain(urljoin(BASE_URL, u))
    /\ \A u \in ArticleURLs : InTargetDomain(u)

\* the new-article cap N is reached: N articles are captured
NewArticleCapReached(captured) ==
    max_new_articles # None /\ Len(captured) >= ValueOf(max_new_articles)

\* C5: Termination.  Every run eventually returns; it leaves the loop only
\* when the queue is empty, the page-visit cap is reached or the
\* new-article cap is reached, and it runs no further iteration once one of
\* the three holds.
C5_Termination ==
    /\ <>(pc = "done")
    /\ [][(pc = "loop" /\ pc' = "done")
            => \/ to_visit = << >>
               \/ Cardinality(seen) >= MAX_PAGES
               \/ NewArticleCapReached(articles')]_vars
    /\ [][(pc = "loop" /\ pc' = "loop")
            => /\ to_visit # << >>
               /\ Cardinality(seen) < MAX_PAGES
               /\ ~NewArticleCapReached(articles)
               /\ ~NewArticleCapReached(articles')]_vars
    /\ [][pc = "done" => pc' = "done"]_vars

\* C6: Politeness throttle.  Between any two consecutive get_soup calls of a
\* run, time.sleep(REQUEST_DELAY_SECONDS) is called.
C6_PolitenessThrottle ==
    [][step' \in FetchSteps => throttle # "fetched"]_vars

\* C7: A failed fetch is never fatal.  The step whose fetch fails captures
\* nothing, enqueues nothing, leaves the known-URL set alone and leaves the
\* run at the loop head with the rest of the queue.
C7_FailedFetchNotFatal ==
    [][step' = "fetch_failed"
         => /\ articles' = articles
            /\ known_articles' = known_articles
            /\ to_visit' = Tail(to_visit)
            /\ pc' = "loop"]_vars

\* C7 witness: an article captured by a run in which an earlier fetch failed.
C7_Witness ==
    /\ failures > 0
    /\ step \in {"captured", "cap_break"}
    /\ articles # << >>

(***************************************************************************)
(* Claims about the index.                                                 *)
(***************************************************************************)
FileRecords == IF index_file = None THEN << >> ELSE ValueOf(index_file)
FileUrls == {FileRecords[i].url : i \in 1..Len(FileRecords)}
CorpusUrls(corpus) == {corpus[i].url : i \in 1..Len(corpus)}

\* the file holds exactly the corpus's URLs, each in exactly one record
ExactlyTheUrlsOf(corpus) ==
    /\ FileUrls = CorpusUrls(corpus)
    /\ \A i, j \in 1..Len(FileRecords) :
          FileRecords[i].url = FileRecords[j].url => i = j

\* every article carries a text and a URL
WellFormed(corpus) ==
    \A i \in 1..Len(corpus) : corpus[i].text # "" /\ corpus[i].url # ""

\* C3 as stated: Idempotent indexing.  Starting from no index file, after
\* n >= 1 consecutive builds of one and the same corpus (whatever the corpus),
\* the index file holds exactly the corpus's URLs, each in exactly one record.
C3_IdempotentIndexing ==
    (started_without_index /\ builds >= 1 /\ uniform)
        => ExactlyTheUrlsOf(corpus_arg)

\* C3 as amended: the same, for a corpus whose articles all carry a
\* non-empty text and a non-empty URL, and builds that returned normally.
C3_IdempotentIndexingWellFormed ==
    (started_without_index /\ builds >= 1 /\ uniform /\ WellFormed(corpus_arg))
        => ExactlyTheUrlsOf(corpus_arg)

\* C3 witness: a two-URL corpus built twice; the second build wrote nothing.
C3_Witness ==
    /\ started_without_index
    /\ uniform
    /\ builds = 2
    /\ WellFormed(corpus_arg)
    /\ Cardinality(CorpusUrls(corpus_arg)) = 2
    /\ Len(FileRecords) = 2
    /\ ~wrote

\* a stored embedding that is a non-empty sequence of numbers
ValidEmbedding(e) ==
    /\ e.kind = "list"
    /\ e.items # << >>
    /\ \A i \in 1..Len(e.items) : e.items[i].isnum

\* C8: Empty-index graceful degradation.  search_context on a missing index
\* file, or on one none of whose records is valid, returns an empty list and
\* calls the embedding service not at all, for every query and every k.
C8_EmptyIndexDegrades ==
    (/\ op = "search"
     /\ \A i \in 1..Len(FileRecords) : ~ValidEmbedding(FileRecords[i].embedding))
        => (outcome = "returned" /\ returned = << >> /\ embed_calls = 0)

\* cosine similarity of q and e from the two vectors alone (0 when either
\* is all zeros), as the fraction sign(dot) * dot^2 / (|q|^2 * |e|^2)
Cosine(q, e) ==
    IF SumSq(q) = 0 \/ SumSq(e) = 0 THEN [num |-> 0, den |-> 1]
    ELSE [num |-> Sign(Dot(q, e)) * Dot(q, e) * Dot(q, e),
          den |-> SumSq(q) * SumSq(e)]
CosineLess(q, e1, e2) ==
    Cosine(q, e1).num * Cosine(q, e2).den < Cosine(q, e2).num * Cosine(q, e1).den
Occurrences(s, x) == Cardinality({i \in 1..Len(s) : s[i] = x})

RecordA == [title |-> "T1", url |-> "u1", text |-> "A",
            embedding |-> <<1, 0>>, norm2 |-> 1]
RecordB == [title |-> "T2", url |-> "u2", text |-> "B",
            embedding |-> <<0, 1>>, norm2 |-> 1]
ReturnedA == [title |-> "T1", url |-> "u1", text |-> "A"]
ReturnedB == [title |-> "T2", url |-> "u2", text |-> "B"]

\* C9: Top-k cosine ranking.  A search that returns from a non-empty index
\* of n records returns exactly min(k, n) of its records, in order of
\* non-increasing cosine similarity to the query embedding, and no record
\* left out is strictly more similar than a returned one; with the records
\* [1,0] (A) and [0,1] (B) and the query embedding [1,0], A comes before B.
C9_TopKCosineRanking ==
    (op = "search" /\ outcome = "returned" /\ cache # None
       /\ ValueOf(cache) # << >>)
    => LET index == ValueOf(cache)
           n == Len(index)
       IN /\ Len(returned) = IF k_arg < n THEN k_arg ELSE n
          /\ Len(top_items) = Len(returned)
          /\ \A i \in 1..Len(returned) :
                /\ returned[i].title = top_items[i].title
                /\ returned[i].url = top_items[i].url
                /\ returned[i].text = top_items[i].text
                /\ DOMAIN returned[i] = {"title", "url", "text"}
          /\ \A r \in Range(top_items) :
                Occurrences(top_items, r) <= Occurrences(index, r)
          /\ \A i, j \in 1..Len(top_items) :
                i < j => ~CosineLess(query_emb, top_items[i].embedding,
                                     top_items[j].embedding)
          /\ \A r \in Range(index) :
                Occurrences(top_items, r) < Occurrences(index, r)
                  => \A t \in Range(top_items) :
                        ~CosineLess(query_emb, t.embedding, r.embedding)
          /\ (Range(index) = {RecordA, RecordB} /\ n = 2
                /\ query_emb = <<1, 0>> /\ k_arg = 2)
                => returned = <<ReturnedA, ReturnedB>>

\* C9 witness: the index file lists B before A, the query embedding is
\* [1,0], and the search returned A before B.
C9_Witness ==
    /\ op = "search"
    /\ outcome = "returned"
    /\ cache = Some(<<RecordB, RecordA>>)
    /\ query_emb = <<1, 0>>
    /\ k_arg = 2
    /\ returned = <<ReturnedA, ReturnedB>>

\* every article of the batch has no text or a URL the index file holds
EveryArticleSkipped(corpus) ==
    \A i \in 1..Len(corpus) :
        \/ corpus[i].text = ""
        \/ (corpus[i].url # "" /\ corpus[i].url \in FileUrls)

\* C10: No-op build.  A build of a batch every article of which is skipped
\* returns without writing, and leaves the index file as it was: the same
\* content, or still missing.
C10_NoOpBuildLeavesIndex ==
    [][(op' = "build" /\ builds' = builds + 1 /\ EveryArticleSkipped(corpus_arg'))
         => /\ outcome' = "returned"
            /\ ~wrote'
            /\ index_file' = index_file]_vars

\* C10 witness: a build of a batch holding an article with text, all of it
\* skipped because the URLs are in the index already.
C10_Witness ==
    /\ op = "build"
    /\ outcome = "returned"
    /\ ~wrote
    /\ embed_calls = 0
    /\ index_file # None
    /\ \E i \in 1..Len(corpus_arg) : corpus_arg[i].text # ""

\* the values of a stored numeric embedding
Numbers(e) == [i \in 1..Len(e.items) |-> e.items[i].val]

\* C11: Load validation never aborts.  For any index file holding a list of
\* stored records, load_index does not raise and returns exactly the records
\* whose embedding is a non-empty sequence of numbers, in file order; every
\* other record (embedding missing, empty, no list, or with an element that
\* is no number) is dropped.
C11_LoadNeverAborts ==
    op = "search"
        => /\ cache # None
           /\ LET kept == SelectSeq(FileRecords,
                                    LAMBDA r : ValidEmbedding(r.embedding))
                  loaded == ValueOf(cache)
              IN /\ Len(loaded) = Len(kept)
                 /\ \A i \in 1..Len(kept) :
                       /\ i <= Len(loaded)
                       /\ loaded[i].title = kept[i].title
                       /\ loaded[i].url = kept[i].url
                       /\ loaded[i].text = kept[i].text
                       /\ loaded[i].embedding = Numbers(kept[i].embedding)

\* C17: Zero-norm safety.  Whatever the query embedding, scoring a loaded
\* record never divides by zero; a record whose embedding is all zeros
\* scores 0, and an all-zero query embedding gives every record the score 0.
C17_ZeroNormSafety ==
    (op = "search" /\ cache # None)
        => \A r \in Range(ValueOf(cache)), q \in Vectors :
              LET s == cosine_similarity(q, r.embedding, r.norm2)
              IN /\ s.den # 0
                 /\ (SumSq(r.embedding) = 0 \/ SumSq(q) = 0) => s.num = 0

\* C17 witness: a search with a non-zero query embedding that returned a
\* record whose embedding is all zeros.
C17_Witness ==
    /\ op = "search"
    /\ outcome = "returned"
    /\ SumSq(query_emb) # 0
    /\ \E r \in Range(top_items) : SumSq(r.embedding) = 0

\* C18: Hard page-visit cap.  The visited set never holds more than
\* MAX_PAGES URLs, and every fetch attempt adds a URL to it that was not in
\* it, so a run makes at most MAX_PAGES fetch attempts.
C18_HardPageCap ==
    /\ [](Cardinality(seen) <= MAX_PAGES)
    /\ [][step' \in FetchSteps
            => /\ Cardinality(seen) < MAX_PAGES
               /\ Cardinality(seen') = Cardinality(seen) + 1]_vars

\* C18 witness: a run that returned because MAX_PAGES URLs were visited,
\* with URLs it has not visited still queued and the last of the visited
\* ones fetched.
C18_Witness ==
    /\ pc = "done"
    /\ step = "exit"
    /\ Cardinality(seen) = MAX_PAGES
    /\ \E i \in 1..Len(to_visit) : to_visit[i] \notin seen
    /\ max_new_articles = None

\* C19: Failed build changes nothing.  A build in which an embed_text call
\* raises ends with that error and leaves the index file as it was, whatever
\* it had embedded before.
C19_FailedBuildChangesNothing ==
    [][(op' = "build" /\ builds' = builds + 1 /\ outcome' = "raised")
         => (index_file' = index_file /\ ~wrote')]_vars

\* C19 witness: a build that failed on its second embed_text call.
C19_Witness ==
    /\ op = "build"
    /\ outcome = "raised"
    /\ embed_calls = 2
    /\ ~wrote

\* s is the beginning of t
IsPrefix(s, t) == Len(s) <= Len(t) /\ SubSeq(t, 1, Len(s)) = s

C12_MemoizedLoad ==
    /\ [](reads <= 1)
    /\ [][cache # None => cache' = cache]_vars
    /\ [][(op' = "search" /\ cache # None)
            => /\ outcome' = "returned" => Range(top_items') \subseteq
                                               Range(ValueOf(cache))
               /\ ValueOf(cache) = << >>
                    => (outcome' = "returned" /\ returned' = << >>)]_vars

\* load_index returned, and cached, the records of the complete list `file`
\* (nothing, for a file that is missing)
Observes(file) ==
    /\ ~ReadIndex(file).raised
    /\ cache' = Some(ReadIndex(file).records)

\* C14: Atomic index rewrite.  A load of the index file made while a build
\* is writing it observes the complete list the file held before the write
\* or the complete list being written, never anything else.
C14_AtomicRewrite ==
    [][(op' = "search" /\ cache = None /\ write_pending # None)
         => (Observes(index_file) \/ Observes(write_pending))]_vars

\* C13: Deterministic output order.  Two runs given the same seeds, the same
\* existing_urls and the same max_new_articles on the same site (the same
\* pages, links and fetch failures) return the same Articles in the same
\* order.
C13_DeterministicOrder ==
    (first_run # None /\ pc = "done") => articles = ValueOf(first_run)

RECURSIVE FirstNonEmpty(_)
FirstNonEmpty(candidates) ==
    IF candidates = << >> THEN << >>
    ELSE IF Head(candidates) # << >> THEN Head(candidates)
    ELSE FirstNonEmpty(Tail(candidates))

\* C15: Title resolution.  The title of a returned Article is the first
\* non-empty one of: the text of the h1, the content of the og:title meta
\* tag, the page URL; without h1 and og:title it is the URL; it is never
\* empty.
C15_TitleResolution ==
    extracted.status = "article"
        => LET h1_text == IF doc.h1 = None THEN << >>
                          ELSE Strip(ValueOf(doc.h1))
               og_text == IF doc.og.present /\ doc.og.content # None
                          THEN Strip(ValueOf(doc.og.content)) ELSE << >>
           IN /\ extracted.title = FirstNonEmpty(<<h1_text, og_text, PageURL>>)
              /\ (doc.h1 = None /\ ~doc.og.present) => extracted.title = PageURL
              /\ extracted.title # << >>

\* a container whose text the extraction may use: one matched by one of
\* the class*= selectors, or an <article> with a keyword in one of its
\* classes
MayContribute(node) ==
    \/ \E selector \in 1..Len(class_patterns) : Selects(selector, node)
    \/ /\ node.is_article_tag
       /\ node.class # None
       /\ \E i \in 1..Len(ValueOf(node.class)), keyword \in keywords :
             Contains(ValueOf(node.class)[i], keyword)

\* C16: Generic-container rejection.  Only the containers that may
\* contribute decide the body: with none of them holding text nothing is
\* extracted, otherwise the text is the longest of theirs.  Every other
\* <article>, one without a class attribute included, is passed over.
C16_GenericContainerRejection ==
    extracted.status # "idle"
        => LET texts == {doc.nodes[j].text :
                            j \in {i \in 1..Len(doc.nodes) :
                                      MayContribute(doc.nodes[i])}}
           IN IF \A t \in texts : t = << >>
              THEN extracted.status = "none"
              ELSE /\ extracted.status = "article"
                   /\ extracted.text \in texts
                   /\ \A t \in texts : Len(t) <= Len(extracted.text)

\* C21: Corpus and index stay in step.  From no corpus and no index, after
\* any sequence of runs of main, runs whose index update raised included,
\* whenever a run has ended without error every article URL in the corpus
\* file has a record in the index file.
C21_CorpusAndIndexInStep ==
    main_pc = "returned"
        => \A i \in 1..Len(load_existing_corpus(corpus_file)) :
               URLText(load_existing_corpus(corpus_file)[i].url) \in FileUrls

====
